---------------------------- MODULE Spec2Model ----------------------------
(***************************************************************************)
(* Client-side state machines of the services-marketplace front end:       *)
(*   Marketplace   (src/frontend/src/pages/Dashboard.js, second module)    *)
(*   CreateService (src/frontend/src/pages/CreateService.js)               *)
(*   ServiceDetail (src/frontend/src/pages/ServiceDetail.js)               *)
(*   ProtectedRoute (src/frontend/src/components/ProtectedRoute.js)        *)
(*                                                                         *)
(* JavaScript strings that the code inspects character by character        *)
(* (trim, parseFloat, parseInt, split) are sequences of one-character      *)
(* strings, so "2.5" is <<"2", ".", "5">> and '' is <<>>.                  *)
(***************************************************************************)
EXTENDS Integers, Sequences, FiniteSets, TLC

VARIABLES
    \* ---- Marketplace --------------------------------------------------
    filters,        \* useState filters   (Dashboard.js:360)
    services,       \* useState services  (Dashboard.js:358), listing ids
    catLoading,     \* useState loading   (Dashboard.js:359)
    catReqs,        \* GET /services requests issued so far, with their status
    \* ---- CreateService ------------------------------------------------
    formData,       \* useState formData (CreateService.js:13)
    images,         \* useState images   (CreateService.js:23)
    draftError,     \* useState error    (CreateService.js:24)
    draftLoading,   \* useState loading  (CreateService.js:25)
    readers,        \* FileReader reads in flight
    uploads,        \* the file lists handleImageUpload was called with so far
    posts,          \* POST /services requests in flight
    submits,        \* number of handleSubmit calls so far
    draftNav,       \* 0, or the listing id navigate() was called with
    \* ---- Session (useAuth) --------------------------------------------
    user,           \* the current identity, NoUser when there is none
    authLoading,    \* true until the stored session has been restored
    \* ---- ServiceDetail ------------------------------------------------
    detId,          \* useParams id
    service,        \* useState service (ServiceDetail.js:14), a listing id
    detLoading,     \* useState loading (ServiceDetail.js:15)
    detError,       \* useState error   (ServiceDetail.js:16)
    orderLoading,   \* useState orderLoading (ServiceDetail.js:17)
    orderRequirements,  \* useState orderRequirements (ServiceDetail.js:18)
    detReqs,        \* GET /services/{id} requests in flight
    alerts,         \* number of alert() acknowledgments shown
    orders,         \* number of handleOrder calls so far
    detNav,         \* "", or the path navigate() was called with
    \* ---- ProtectedRoute -----------------------------------------------
    guardMounted,   \* a route wrapped in ProtectedRoute is the current route
    guardRequired,  \* its requiredUserType prop, "" for null
    guardNav,       \* "", or the path the last navigation away went to
    allowedBefore   \* the requiredUserType values whose children were shown

catVars == <<filters, services, catLoading, catReqs>>

draftVars == <<formData, images, draftError, draftLoading, readers,
               uploads, posts, submits, draftNav>>

sessionVars == <<user, authLoading>>

detVars == <<detId, service, detLoading, detError, orderLoading,
             orderRequirements, detReqs, alerts, orders,
             detNav>>

guardVars == <<guardMounted, guardRequired, guardNav, allowedBefore>>

vars == <<catVars, draftVars, sessionVars, detVars, guardVars>>

otherThanCatalog == <<draftVars, sessionVars, detVars, guardVars>>

otherThanDraft == <<catVars, sessionVars, detVars, guardVars>>

otherThanSession == <<catVars, draftVars, detVars, guardVars>>

otherThanDetail == <<catVars, draftVars, sessionVars, guardVars>>

otherThanGuard == <<catVars, draftVars, detVars>>

-----------------------------------------------------------------------------
(* JavaScript string primitives                                            *)

EmptyStr == <<>>

IsSpace(c) == c = " "

Digits == <<"0", "1", "2", "3", "4", "5", "6", "7", "8", "9">>

IsDigit(c) == \E i \in 1..Len(Digits) : Digits[i] = c

DigitVal(c) == (CHOOSE i \in 1..Len(Digits) : Digits[i] = c) - 1

RECURSIVE TrimStart(_)
TrimStart(s) ==
    IF s # <<>> /\ IsSpace(Head(s)) THEN TrimStart(Tail(s)) ELSE s

RECURSIVE TrimEnd(_)
TrimEnd(s) ==
    IF s # <<>> /\ IsSpace(s[Len(s)])
    THEN TrimEnd(SubSeq(s, 1, Len(s) - 1))
    ELSE s

\* String.prototype.trim
Trim(s) == TrimEnd(TrimStart(s))

\* Truthiness of a string: '' is falsy, every other string is truthy.
Truthy(s) == s # <<>>

\* The longest prefix of s made of decimal digits.
RECURSIVE DigitPrefix(_)
DigitPrefix(s) ==
    IF s # <<>> /\ IsDigit(Head(s))
    THEN <<Head(s)>> \o DigitPrefix(Tail(s))
    ELSE <<>>

RECURSIVE DigitsValue(_)
DigitsValue(ds) ==
    IF ds = <<>> THEN 0
    ELSE 10 * DigitsValue(SubSeq(ds, 1, Len(ds) - 1)) + DigitVal(ds[Len(ds)])

RECURSIVE Pow10(_)
Pow10(n) == IF n = 0 THEN 1 ELSE 10 * Pow10(n - 1)

\* A JavaScript number as far as the code uses it: NaN, or the exact decimal
\* num / 10^scale.
NaN == [nan |-> TRUE, num |-> 0, scale |-> 0]

Num(n, k) == [nan |-> FALSE, num |-> n, scale |-> k]

\* parseInt(s) in radix 10: leading white space is skipped, an optional sign
\* and the longest run of digits are read, the rest is ignored; NaN when no
\* digit is read.  (Hexadecimal prefixes are outside the modelled alphabet.)
ParseInt(s) ==
    LET t    == TrimStart(s)
        neg  == t # <<>> /\ Head(t) = "-"
        sgn  == t # <<>> /\ Head(t) \in {"-", "+"}
        body == IF sgn THEN Tail(t) ELSE t
        ds   == DigitPrefix(body)
    IN  IF ds = <<>> THEN NaN
        ELSE Num((IF neg THEN -1 ELSE 1) * DigitsValue(ds), 0)

\* parseFloat(s): leading white space is skipped, then an optional sign,
\* digits, and an optional fraction are read, the rest is ignored; NaN when
\* no digit is read.  (Exponents and "Infinity" are outside the modelled
\* alphabet.)
ParseFloat(s) ==
    LET t     == TrimStart(s)
        neg   == t # <<>> /\ Head(t) = "-"
        sgn   == t # <<>> /\ Head(t) \in {"-", "+"}
        body  == IF sgn THEN Tail(t) ELSE t
        ip    == DigitPrefix(body)
        rest  == SubSeq(body, Len(ip) + 1, Len(body))
        fp    == IF rest # <<>> /\ Head(rest) = "."
                 THEN DigitPrefix(Tail(rest)) ELSE <<>>
    IN  IF ip = <<>> /\ fp = <<>> THEN NaN
        ELSE Num((IF neg THEN -1 ELSE 1) * DigitsValue(ip \o fp), Len(fp))

\* x <= 0 on JavaScript numbers: every comparison with NaN is false.
LeqZero(x) == ~x.nan /\ x.num <= 0

\* String.prototype.split(sep) for a one-character separator.
RECURSIVE Split(_, _)
Split(s, sep) ==
    IF \A i \in 1..Len(s) : s[i] # sep THEN <<s>>
    ELSE LET k == CHOOSE i \in 1..Len(s) :
                      s[i] = sep /\ \A j \in 1..(i - 1) : s[j] # sep
         IN  <<SubSeq(s, 1, k - 1)>> \o Split(SubSeq(s, k + 1, Len(s)), sep)

-----------------------------------------------------------------------------
(* Backend collaborator: the listing collection behind GET /services       *)

Title_a == <<"a">>

Title_ab == <<"a", "b">>

CatOther == <<"o", "t", "h", "e", "r">>

CatGraphic == <<"g", "r", "a", "p", "h", "i", "c">>

\* Listing-shaped objects; creator_id is the owner's account id.
Listings ==
    << [id |-> 1, title |-> Title_a,  category |-> CatOther,
        base_price |-> 8,  creator_id |-> 3],
       [id |-> 2, title |-> Title_ab, category |-> CatGraphic,
        base_price |-> 25, creator_id |-> 1] >>

ListingIds == {Listings[i].id : i \in 1..Len(Listings)}

\* needle occurs in hay as a contiguous substring
Contains(hay, needle) ==
    \E i \in 0..(Len(hay) - Len(needle)) :
        SubSeq(hay, i + 1, i + Len(needle)) = needle

HasParam(params, key) == \E i \in 1..Len(params) : params[i].key = key

ParamValue(params, key) ==
    params[CHOOSE i \in 1..Len(params) : params[i].key = key].value

\* l.base_price >= x (resp. <=) for a query bound x; a bound that is not a
\* number constrains nothing.
PriceAtLeast(l, x) == x.nan \/ l.base_price * Pow10(x.scale) >= x.num

PriceAtMost(l, x) == x.nan \/ l.base_price * Pow10(x.scale) <= x.num

MatchesQuery(l, params) ==
    /\ HasParam(params, "search")
           => Contains(l.title, ParamValue(params, "search"))
    /\ HasParam(params, "category")
           => l.category = ParamValue(params, "category")
    /\ HasParam(params, "min_price")
           => PriceAtLeast(l, ParseFloat(ParamValue(params, "min_price")))
    /\ HasParam(params, "max_price")
           => PriceAtMost(l, ParseFloat(ParamValue(params, "max_price")))

\* GET /services?...: the ordered sequence of matching listings (their ids)
BackendSearch(params) ==
    LET hit(i) == MatchesQuery(Listings[i], params)
        idxs   == SelectSeq([i \in 1..Len(Listings) |-> i], hit)
    IN  [k \in 1..Len(idxs) |-> Listings[idxs[k]].id]

-----------------------------------------------------------------------------
(* Marketplace                                                             *)

MaxSearches == 3

SearchInputs == {EmptyStr, <<"a">>, <<"a", "b">>, <<" ">>}

CategoryInputs == {EmptyStr, CatOther}

MinPriceInputs == {EmptyStr, <<"5">>, <<"2", "0">>}

MaxPriceInputs == {EmptyStr, <<"1", "0">>}

FilterNames == {"search", "category", "minPrice", "maxPrice"}

FilterInputs(name) ==
    CASE name = "search"   -> SearchInputs
      [] name = "category" -> CategoryInputs
      [] name = "minPrice" -> MinPriceInputs
      [] name = "maxPrice" -> MaxPriceInputs

EmptyFilters ==
    [search |-> EmptyStr, category |-> EmptyStr,
     minPrice |-> EmptyStr, maxPrice |-> EmptyStr]

Param(k, v) == [key |-> k, value |-> v]

\* x > y for two numbers; false when either is NaN
NumGreater(x, y) ==
    /\ ~x.nan
    /\ ~y.nan
    /\ x.num * Pow10(y.scale) > y.num * Pow10(x.scale)

\* The appends with both price bounds left out when min exceeds max
BuildParams_DropInverted(f) ==
    LET inverted == NumGreater(ParseFloat(f.minPrice), ParseFloat(f.maxPrice))
    IN     (IF Truthy(f.search)   THEN <<Param("search", f.search)>>     ELSE <<>>)
        \o (IF Truthy(f.category) THEN <<Param("category", f.category)>> ELSE <<>>)
        \o (IF Truthy(f.minPrice) /\ ~inverted
            THEN <<Param("min_price", f.minPrice)>> ELSE <<>>)
        \o (IF Truthy(f.maxPrice) /\ ~inverted
            THEN <<Param("max_price", f.maxPrice)>> ELSE <<>>)

\* The appends with a field that is blank after trimming taken as absent
BuildParams_Trimmed(f) ==
       (IF Truthy(Trim(f.search))   THEN <<Param("search", f.search)>>      ELSE <<>>)
    \o (IF Truthy(Trim(f.category)) THEN <<Param("category", f.category)>>  ELSE <<>>)
    \o (IF Truthy(Trim(f.minPrice)) THEN <<Param("min_price", f.minPrice)>> ELSE <<>>)
    \o (IF Truthy(Trim(f.maxPrice)) THEN <<Param("max_price", f.maxPrice)>> ELSE <<>>)

\* new URLSearchParams() followed by the four conditional appends
BuildParams(f) ==
       (IF Truthy(f.search)   THEN <<Param("search", f.search)>>      ELSE <<>>)
    \o (IF Truthy(f.category) THEN <<Param("category", f.category)>>  ELSE <<>>)
    \o (IF Truthy(f.minPrice) THEN <<Param("min_price", f.minPrice)>> ELSE <<>>)
    \o (IF Truthy(f.maxPrice) THEN <<Param("max_price", f.maxPrice)>> ELSE <<>>)

\* fetchServices up to its await: setLoading(true) and the GET leaves.
\* The request joins catReqs as pending; its number is its position.
FetchServicesStart(f) ==
    /\ catLoading' = TRUE
    /\ catReqs' = Append(catReqs, [params |-> BuildParams(f), status |-> "pending"])

\* What the success continuation stores: setServices(response.data).
AppliedServices(r) == BackendSearch(catReqs[r].params)

\* handleFilterChange without the effect that follows it
HandleFilterChange_NoFetch(name, value) ==
    /\ Len(catReqs) < MaxSearches
    /\ value # filters[name]
    /\ filters' = [filters EXCEPT ![name] = value]
    /\ UNCHANGED <<services, catLoading, catReqs>>
    /\ UNCHANGED otherThanCatalog

\* useEffect(() => fetchServices(), [filters]) after setFilters in
\* handleFilterChange: one field changes, then the effect runs on the new
\* filters.
HandleFilterChange(name, value) ==
    /\ Len(catReqs) < MaxSearches
    /\ value # filters[name]
    /\ filters' = [filters EXCEPT ![name] = value]
    /\ FetchServicesStart(filters')
    /\ UNCHANGED services
    /\ UNCHANGED otherThanCatalog

\* clearFilters stores a fresh all-empty object, so the effect runs even
\* when every field was already empty.
ClearFilters ==
    /\ Len(catReqs) < MaxSearches
    /\ filters' = EmptyFilters
    /\ FetchServicesStart(filters')
    /\ UNCHANGED services
    /\ UNCHANGED otherThanCatalog

\* The GET of request r resolves: try-branch after the await, then finally.
FetchServicesOk(r) ==
    /\ catReqs[r].status = "pending"
    /\ services' = AppliedServices(r)
    /\ catLoading' = FALSE
    /\ catReqs' = [catReqs EXCEPT ![r].status = "ok"]
    /\ UNCHANGED filters
    /\ UNCHANGED otherThanCatalog

\* The GET of request r rejects: catch only logs, then finally.
FetchServicesFail(r) ==
    /\ catReqs[r].status = "pending"
    /\ catLoading' = FALSE
    /\ catReqs' = [catReqs EXCEPT ![r].status = "fail"]
    /\ UNCHANGED <<filters, services>>
    /\ UNCHANGED otherThanCatalog

\* The three-way conditional below the filter bar.
CatalogView ==
    IF catLoading THEN "spinner"
    ELSE IF Len(services) > 0 THEN "grid"
    ELSE "no_services_found"

\* Mount: initial useState values, and the effect's first fetchServices
\* already in flight.
CatalogInit ==
    /\ filters = EmptyFilters
    /\ services = <<>>
    /\ catLoading = TRUE
    /\ catReqs = <<[params |-> BuildParams(EmptyFilters), status |-> "pending"]>>

CatalogNext ==
    \/ \E name \in FilterNames : \E value \in FilterInputs(name) :
           HandleFilterChange(name, value)
    \/ ClearFilters
    \/ \E r \in 1..Len(catReqs) : FetchServicesOk(r)
    \/ \E r \in 1..Len(catReqs) : FetchServicesFail(r)

-----------------------------------------------------------------------------
(* CreateService                                                           *)

MaxSubmits == 2

\* 5 * 1024 * 1024
MaxImageBytes == 5242880

TitleInputs == {EmptyStr, <<" ">>, <<"L">>}

DescriptionInputs == {EmptyStr, <<" ">>, <<"d">>}

PriceInputs ==
    {EmptyStr, <<"0">>, <<"-", "1">>, <<"x">>, <<"2", "5", ".", "0", "0">>}

DeliveryInputs ==
    {EmptyStr, <<"0">>, <<"-", "2">>, <<"x">>, <<"2", ".", "5">>, <<"3">>}

TagsInputs == {EmptyStr, <<"a", ",", " ", "b", ",">>}

FieldNames == {"title", "description", "tags", "base_price", "delivery_time_days"}

FieldInputs(name) ==
    CASE name = "title"              -> TitleInputs
      [] name = "description"        -> DescriptionInputs
      [] name = "tags"               -> TagsInputs
      [] name = "base_price"         -> PriceInputs
      [] name = "delivery_time_days" -> DeliveryInputs

\* File objects of an <input type="file" multiple>: size in bytes, and the
\* base64 text of the bytes.
Files ==
    { [name |-> "small", size |-> 1024,              content |-> <<"S">>],
      [name |-> "limit", size |-> MaxImageBytes,     content |-> <<"M">>],
      [name |-> "big",   size |-> MaxImageBytes + 1, content |-> <<"B">>] }

\* e.target.files: the selected files in selection order, no file twice
FileBatches ==
    {b \in UNION {[1..n -> Files] : n \in 1..Cardinality(Files)} :
        \A i, j \in 1..Len(b) : i # j => b[i] # b[j]}

\* The files of the batches picked so far.  Each file is picked at most once
\* in a run, which keeps the uploads finite.
PickedFiles ==
    UNION {{uploads[u][i] : i \in 1..Len(uploads[u])} : u \in 1..Len(uploads)}

\* The batches the runs of SpecDraft pick from: validation is explored over
\* every field input, with one file to attach and remove.
SingleFileBatches == {b \in FileBatches : Len(b) = 1 /\ b[1].name = "small"}

\* The field inputs the runs of SpecImages type: the image pipeline is
\* explored over every batch, with a draft that is empty or valid.
ValidFieldInputs(name) ==
    CASE name = "title"              -> {<<"L">>}
      [] name = "description"        -> {<<"d">>}
      [] name = "tags"               -> {}
      [] name = "base_price"         -> {<<"2", "5", ".", "0", "0">>}
      [] name = "delivery_time_days" -> {<<"3">>}

NoError == ""

TitleRequired == "Title is required"

DescriptionRequired == "Description is required"

InvalidPrice == "Please enter a valid price"

InvalidDelivery == "Please enter a valid delivery time"

ImageTooLarge == "Image files must be less than 5MB"

CreateFailed == "Failed to create service"

\* error.response?.data?.detail of a rejected POST: "" when there is none
\* (no response, or a response without detail)
BackendDetails == {"", "Validation failed"}

\* response.data.id of a created listing
NewListingIds == {3}

InitialFormData ==
    [title |-> EmptyStr, description |-> EmptyStr, category |-> CatGraphic,
     tags |-> EmptyStr, base_price |-> EmptyStr,
     delivery_time_days |-> EmptyStr, revisions_included |-> <<"1">>]

\* The view without its role test
CreateServiceView_NoGate(u) == "form"

\* if (user?.user_type !== 'creator') the "Access Denied" block is returned
\* in place of the form
CreateServiceView(u) ==
    IF u.user_type # "creator" THEN "access_denied" ELSE "form"

\* The form, with its inputs and buttons, is on screen
FormShown == draftNav = 0 /\ CreateServiceView(user) = "form"

\* handleChange: one field of formData is replaced by the input's value
HandleChange(name, value) ==
    /\ FormShown
    /\ value # formData[name]
    /\ formData' = [formData EXCEPT ![name] = value]
    /\ UNCHANGED <<images, draftError, draftLoading, readers,
                   uploads, posts, submits, draftNav>>
    /\ UNCHANGED otherThanDraft

\* file.size > 5 * 1024 * 1024
TooLarge_Inclusive(file) == file.size >= MaxImageBytes

TooLarge(file) == file.size > MaxImageBytes

\* reader.readAsDataURL(file): "data:<type>;base64," followed by the
\* base64 text; the media-type part is abbreviated to "d;b".
ReadAsDataURL(file) == <<"d", ";", "b", ",">> \o file.content

\* event.target.result.split(',')[1]
Base64Of(dataUrl) == Split(dataUrl, ",")[2]

\* handleImageUpload: forEach over the files; an oversized file sets the
\* error and is skipped, every other file gets a FileReader of its own.
HandleImageUpload(batch) ==
    /\ FormShown
    /\ \A i \in 1..Len(batch) : batch[i] \notin PickedFiles
    /\ uploads' = Append(uploads, batch)
    /\ readers' = readers \cup
           {[upload |-> Len(uploads'), idx |-> i, file |-> batch[i]] :
               i \in {k \in 1..Len(batch) : ~TooLarge(batch[k])}}
    /\ draftError' = IF \E i \in 1..Len(batch) : TooLarge(batch[i])
                     THEN ImageTooLarge ELSE draftError
    /\ UNCHANGED <<formData, images, draftLoading, posts, submits,
                   draftNav>>
    /\ UNCHANGED otherThanDraft

\* reader.onload of one pending read: setImages(prev => [...prev, base64])
ReaderOnLoad(rd) ==
    /\ rd \in readers
    /\ draftNav = 0
    /\ readers' = readers \ {rd}
    /\ images' = Append(images, Base64Of(ReadAsDataURL(rd.file)))
    /\ UNCHANGED <<formData, draftError, draftLoading, uploads, posts,
                   submits, draftNav>>
    /\ UNCHANGED otherThanDraft

\* The filter with the index counted from 1
WithoutIndex_OneBased(s, index) ==
    LET keep == SelectSeq([i \in 1..Len(s) |-> i], LAMBDA i : i # index)
    IN  [k \in 1..Len(keep) |-> s[keep[k]]]

\* prev.filter((_, i) => i !== index), index counted from 0
WithoutIndex(s, index) ==
    LET keep == SelectSeq([i \in 1..Len(s) |-> i], LAMBDA i : i - 1 # index)
    IN  [k \in 1..Len(keep) |-> s[keep[k]]]

\* removeImage(index), from the remove button of the image at that index
RemoveImage(index) ==
    /\ FormShown
    /\ index \in 0..(Len(images) - 1)
    /\ images' = WithoutIndex(images, index)
    /\ UNCHANGED <<formData, draftError, draftLoading, readers, uploads,
                   posts, submits, draftNav>>
    /\ UNCHANGED otherThanDraft

\* The title check without trim()
TitleMissing_NoTrim(fd) == ~Truthy(fd.title)

\* !formData.title.trim()
TitleMissing(fd) == ~Truthy(Trim(fd.title))

\* !formData.description.trim()
DescriptionMissing(fd) == ~Truthy(Trim(fd.description))

\* !formData.base_price || parseFloat(formData.base_price) <= 0
PriceRejected(fd) ==
    ~Truthy(fd.base_price) \/ LeqZero(ParseFloat(fd.base_price))

\* !formData.delivery_time_days || parseInt(formData.delivery_time_days) <= 0
DeliveryRejected(fd) ==
    ~Truthy(fd.delivery_time_days) \/ LeqZero(ParseInt(fd.delivery_time_days))

\* The validation blocks with the price check moved to the front
ValidationError_PriceFirst(fd) ==
    IF PriceRejected(fd) THEN InvalidPrice
    ELSE IF TitleMissing(fd) THEN TitleRequired
    ELSE IF DescriptionMissing(fd) THEN DescriptionRequired
    ELSE IF DeliveryRejected(fd) THEN InvalidDelivery
    ELSE NoError

\* The four validation blocks of handleSubmit, each returning at once:
\* the message of the first check that fails, NoError when none does.
ValidationError(fd) ==
    IF TitleMissing(fd) THEN TitleRequired
    ELSE IF DescriptionMissing(fd) THEN DescriptionRequired
    ELSE IF PriceRejected(fd) THEN InvalidPrice
    ELSE IF DeliveryRejected(fd) THEN InvalidDelivery
    ELSE NoError

\* The tag conversion without its trim()
TagList_NoTrim(raw) == SelectSeq(Split(raw, ","), Truthy)

\* formData.tags.split(',').map(tag => tag.trim()).filter(tag => tag)
TagList(raw) ==
    LET segs == Split(raw, ",")
    IN  SelectSeq([i \in 1..Len(segs) |-> Trim(segs[i])], Truthy)

\* serviceData: formData spread, then the coerced fields and the images
ServiceData(fd, imgs) ==
    [title              |-> fd.title,
     description        |-> fd.description,
     category           |-> fd.category,
     base_price         |-> ParseFloat(fd.base_price),
     delivery_time_days |-> ParseInt(fd.delivery_time_days),
     revisions_included |-> ParseInt(fd.revisions_included),
     tags               |-> TagList(fd.tags),
     images             |-> imgs]

\* handleSubmit behind a button that is not disabled while loading
HandleSubmit_NotDisabled ==
    /\ FormShown
    /\ submits < MaxSubmits
    /\ submits' = submits + 1
    /\ IF ValidationError(formData) # NoError
       THEN /\ draftError' = ValidationError(formData)
            /\ draftLoading' = FALSE
            /\ posts' = posts
       ELSE /\ draftError' = NoError
            /\ draftLoading' = TRUE
            /\ posts' = posts \cup {ServiceData(formData, images)}
    /\ UNCHANGED <<formData, images, readers, uploads, draftNav>>
    /\ UNCHANGED otherThanDraft

\* handleSubmit up to its first return or its await.  The submit button is
\* disabled while loading (CreateService.js:356).  A failed check leaves
\* error set and loading false; otherwise the POST leaves with loading true.
HandleSubmit ==
    /\ FormShown
    /\ ~draftLoading
    /\ submits < MaxSubmits
    /\ submits' = submits + 1
    /\ IF ValidationError(formData) # NoError
       THEN /\ draftError' = ValidationError(formData)
            /\ draftLoading' = FALSE
            /\ posts' = posts
       ELSE /\ draftError' = NoError
            /\ draftLoading' = TRUE
            /\ posts' = posts \cup {ServiceData(formData, images)}
    /\ UNCHANGED <<formData, images, readers, uploads, draftNav>>
    /\ UNCHANGED otherThanDraft

\* The success path without its navigate()
PostOk_NoNavigate(p, id) ==
    /\ p \in posts
    /\ posts' = posts \ {p}
    /\ draftLoading' = FALSE
    /\ UNCHANGED <<formData, images, draftError, readers, uploads,
                   submits, draftNav>>
    /\ UNCHANGED otherThanDraft

\* The POST resolves: navigate(`/service/${response.data.id}`), finally.
PostOk(p, id) ==
    /\ p \in posts
    /\ posts' = posts \ {p}
    /\ draftNav' = id
    /\ draftLoading' = FALSE
    /\ UNCHANGED <<formData, images, draftError, readers, uploads,
                   submits>>
    /\ UNCHANGED otherThanDraft

\* The catch clause without its fallback
SubmitErrorMessage_NoFallback(detail) == detail

\* error.response?.data?.detail || 'Failed to create service'
SubmitErrorMessage(detail) == IF detail # "" THEN detail ELSE CreateFailed

\* The POST rejects: catch sets the error, finally.
PostFail(p, detail) ==
    /\ p \in posts
    /\ posts' = posts \ {p}
    /\ draftError' = SubmitErrorMessage(detail)
    /\ draftLoading' = FALSE
    /\ UNCHANGED <<formData, images, readers, uploads, submits,
                   draftNav>>
    /\ UNCHANGED otherThanDraft

DraftInit ==
    /\ formData = InitialFormData
    /\ images = <<>>
    /\ draftError = NoError
    /\ draftLoading = FALSE
    /\ readers = {}
    /\ uploads = <<>>
    /\ posts = {}
    /\ submits = 0
    /\ draftNav = 0

DraftNext ==
    \/ \E name \in FieldNames : \E value \in FieldInputs(name) :
           HandleChange(name, value)
    \/ \E batch \in SingleFileBatches : HandleImageUpload(batch)
    \/ \E rd \in readers : ReaderOnLoad(rd)
    \/ \E index \in 0..(Len(images) - 1) : RemoveImage(index)
    \/ HandleSubmit
    \/ \E p \in posts : \E id \in NewListingIds : PostOk(p, id)
    \/ \E p \in posts : \E detail \in BackendDetails : PostFail(p, detail)

-----------------------------------------------------------------------------
(* Session: the identity useAuth() hands to the views                      *)

NoUser == [id |-> 0, user_type |-> "none"]

\* Accounts of the backend.  Account 1 is a buyer whose id is the owner id
\* of listing 2; account 3 is the creator who owns listing 1.
Accounts ==
    { [id |-> 1, user_type |-> "buyer"],
      [id |-> 2, user_type |-> "buyer"],
      [id |-> 3, user_type |-> "creator"],
      [id |-> 4, user_type |-> "creator"] }

SessionInit ==
    /\ user = NoUser
    /\ authLoading = TRUE

\* restore(): the stored token is exchanged for its identity, or there is
\* none; either way loading ends.
RestoreSession(u) ==
    /\ authLoading
    /\ user' = u
    /\ authLoading' = FALSE

Restore(u) ==
    /\ RestoreSession(u)
    /\ UNCHANGED otherThanSession

\* login(credentials) succeeds with identity u
LoginSession(u) ==
    /\ ~authLoading
    /\ user = NoUser
    /\ user' = u
    /\ UNCHANGED authLoading

Login(u) ==
    /\ LoginSession(u)
    /\ UNCHANGED otherThanSession

\* logout()
LogoutSession ==
    /\ ~authLoading
    /\ user # NoUser
    /\ user' = NoUser
    /\ UNCHANGED authLoading

Logout ==
    /\ LogoutSession
    /\ UNCHANGED otherThanSession

-----------------------------------------------------------------------------
(* ServiceDetail                                                           *)

MaxOrders == 2

NoService == 0

\* Route ids: the two listings, and one id the backend does not know
DetailIds == ListingIds \cup {9}

ServiceOf(id) == Listings[CHOOSE i \in 1..Len(Listings) : Listings[i].id = id]

RequirementInputs == {EmptyStr, <<" ">>, <<"r">>}

ServiceNotFound == "Service not found"

OnlyBuyers == "Only buyers can place orders"

RequirementsNeeded == "Please provide order requirements"

\* fetchService resolves: setService(response.data), finally
FetchServiceOk(id) ==
    /\ detNav = ""
    /\ id \in detReqs
    /\ id \in ListingIds
    /\ detReqs' = detReqs \ {id}
    /\ service' = id
    /\ detLoading' = FALSE
    /\ UNCHANGED <<detId, detError, orderLoading, orderRequirements, alerts, orders,
                   detNav>>
    /\ UNCHANGED otherThanDetail

\* fetchService rejects (not found, or transport): setError, finally
FetchServiceFail(id) ==
    /\ detNav = ""
    /\ id \in detReqs
    /\ detReqs' = detReqs \ {id}
    /\ detError' = ServiceNotFound
    /\ detLoading' = FALSE
    /\ UNCHANGED <<detId, service, orderLoading, orderRequirements, alerts, orders,
                   detNav>>
    /\ UNCHANGED otherThanDetail

\* The route id changes while the view stays mounted: useParams gives the
\* new id and the effect on [id] calls fetchService again.  Nothing else is
\* reset: service, loading and error keep their values.
ChangeRoute(id) ==
    /\ detNav = ""
    /\ id # detId
    /\ id \notin detReqs
    /\ detId' = id
    /\ detReqs' = detReqs \cup {id}
    /\ UNCHANGED <<service, detLoading, detError, orderLoading,
                   orderRequirements, alerts, orders, detNav>>
    /\ UNCHANGED otherThanDetail

\* The early returns of the render: spinner, not-found view, or the detail
DetailView ==
    IF detLoading THEN "spinner"
    ELSE IF detError # "" /\ service = NoService THEN "not_found"
    ELSE "detail"

DetailShown == DetailView = "detail" /\ service # NoService /\ detNav = ""

\* The sidebar's conditional with the owner test dropped from its first arm
Affordance_NoOwnerTest(u, svc) ==
    IF u # NoUser /\ u.user_type = "buyer" THEN "order_form"
    ELSE IF u # NoUser /\ u.id = svc.creator_id THEN "own_service"
    ELSE IF u # NoUser /\ u.user_type = "creator" THEN "buyers_only"
    ELSE "sign_in"

\* The sidebar's conditional with the creator arm before the owner arm
Affordance_CreatorFirst(u, svc) ==
    IF u # NoUser /\ u.user_type = "buyer" /\ u.id # svc.creator_id
    THEN "order_form"
    ELSE IF u # NoUser /\ u.user_type = "creator" THEN "buyers_only"
    ELSE IF u # NoUser /\ u.id = svc.creator_id THEN "own_service"
    ELSE "sign_in"

\* The sidebar's four-way conditional: the order form, "This is your
\* service", "Only buyers can order services", or "Sign in to order".
Affordance(u, svc) ==
    IF u # NoUser /\ u.user_type = "buyer" /\ u.id # svc.creator_id
    THEN "order_form"
    ELSE IF u # NoUser /\ u.id = svc.creator_id THEN "own_service"
    ELSE IF u # NoUser /\ u.user_type = "creator" THEN "buyers_only"
    ELSE "sign_in"

OrderFormShown ==
    DetailShown /\ Affordance(user, ServiceOf(service)) = "order_form"

\* The button's disabled attribute without trim()
OrderDisabled_NoTrim(loading, text) == loading \/ ~Truthy(text)

\* disabled={orderLoading || !orderRequirements.trim()}
OrderDisabled(loading, text) == loading \/ ~Truthy(Trim(text))

\* The "Order Now" button is rendered and enabled
OrderActionAvailable ==
    OrderFormShown /\ ~OrderDisabled(orderLoading, orderRequirements)

\* onChange of the requirements textarea
SetOrderRequirements(text) ==
    /\ OrderFormShown
    /\ text # orderRequirements
    /\ orderRequirements' = text
    /\ UNCHANGED <<detId, service, detLoading, detError, orderLoading,
                   detReqs, alerts, orders, detNav>>
    /\ UNCHANGED otherThanDetail

\* handleOrder without its !user test
HandleOrderOutcome_NoUserTest(u, text) ==
    IF u.user_type # "buyer" THEN "not_buyer"
    ELSE IF ~Truthy(Trim(text)) THEN "need_requirements"
    ELSE "acknowledge"

\* The path handleOrder takes: its three early returns, or the
\* acknowledgment.
HandleOrderOutcome(u, text) ==
    IF u = NoUser THEN "login"
    ELSE IF u.user_type # "buyer" THEN "not_buyer"
    ELSE IF ~Truthy(Trim(text)) THEN "need_requirements"
    ELSE "acknowledge"

\* handleOrder as a silent no-op
HandleOrder_Silent ==
    /\ OrderActionAvailable
    /\ orders < MaxOrders
    /\ orders' = orders + 1
    /\ UNCHANGED <<detId, service, detLoading, detError, orderLoading,
                   orderRequirements, detReqs, alerts, detNav>>
    /\ UNCHANGED otherThanDetail

\* handleOrder, from a click on the enabled "Order Now" button.  On the
\* acknowledgment path orderLoading goes true and back to false within
\* the handler, around the alert().
HandleOrder ==
    /\ OrderActionAvailable
    /\ orders < MaxOrders
    /\ orders' = orders + 1
    /\ LET outcome == HandleOrderOutcome(user, orderRequirements)
       IN  /\ detNav' = IF outcome = "login" THEN "/login" ELSE detNav
           /\ detError' = CASE outcome = "login" -> detError
                             [] outcome = "not_buyer" -> OnlyBuyers
                             [] outcome = "need_requirements" -> RequirementsNeeded
                             [] outcome = "acknowledge" -> ""
           /\ alerts' = IF outcome = "acknowledge" THEN alerts + 1 ELSE alerts
           /\ orderLoading' = IF outcome = "acknowledge" THEN FALSE ELSE orderLoading
    /\ UNCHANGED <<detId, service, detLoading, orderRequirements, detReqs>>
    /\ UNCHANGED otherThanDetail

\* The "Sign In" button of the signed-out arm: navigate('/login')
SignInClick ==
    /\ DetailShown
    /\ Affordance(user, ServiceOf(service)) = "sign_in"
    /\ detNav' = "/login"
    /\ UNCHANGED <<detId, service, detLoading, detError, orderLoading,
                   orderRequirements, detReqs, alerts,
                   orders>>
    /\ UNCHANGED otherThanDetail

\* Mount on a route id: initial useState values, and the effect's
\* fetchService in flight.
DetailInitFor(id) ==
    /\ detId = id
    /\ service = NoService
    /\ detLoading = TRUE
    /\ detError = ""
    /\ orderLoading = FALSE
    /\ orderRequirements = EmptyStr
    /\ detReqs = {id}
    /\ alerts = 0
    /\ orders = 0
    /\ detNav = ""

\* The identity comes from the session context and may change under the
\* mounted view (restore completing, sign-in, sign-out); the view re-renders
\* from the new identity and keeps its own state.
DetailNext ==
    \/ \E u \in Accounts \cup {NoUser} : Restore(u)
    \/ \E u \in Accounts : Login(u)
    \/ Logout
    \/ \E id \in detReqs : FetchServiceOk(id)
    \/ \E id \in detReqs : FetchServiceFail(id)
    \/ \E text \in RequirementInputs : SetOrderRequirements(text)
    \/ HandleOrder
    \/ SignInClick

-----------------------------------------------------------------------------
(* ProtectedRoute                                                          *)

\* The values the requiredUserType prop takes; "" is its default, null
RequiredUserTypes == {"", "buyer", "creator"}

\* Variants of the guard, each with one test of ProtectedRoute.js left out
\* or changed
ProtectedRoute_NoLoadingTest(u, loading, requiredUserType) ==
    IF u = NoUser THEN "login"
    ELSE IF requiredUserType # "" /\ u.user_type # requiredUserType
         THEN "dashboard"
    ELSE "children"

ProtectedRoute_NoUserTest(u, loading, requiredUserType) ==
    IF loading THEN "pending"
    ELSE IF requiredUserType # "" /\ u.user_type # requiredUserType
         THEN "dashboard"
    ELSE "children"

ProtectedRoute_NoRoleTest(u, loading, requiredUserType) ==
    IF loading THEN "pending"
    ELSE IF u = NoUser THEN "login"
    ELSE "children"

ProtectedRoute_Cached(u, loading, requiredUserType) ==
    IF loading THEN "pending"
    ELSE IF requiredUserType \in allowedBefore THEN "children"
    ELSE IF u = NoUser THEN "login"
    ELSE IF requiredUserType # "" /\ u.user_type # requiredUserType
         THEN "dashboard"
    ELSE "children"

\* What the component returns: the spinner ("pending"), <Navigate to="/login">
\* ("login"), <Navigate to="/dashboard"> ("dashboard") or its children.
ProtectedRoute(u, loading, requiredUserType) ==
    IF loading THEN "pending"
    ELSE IF u = NoUser THEN "login"
    ELSE IF requiredUserType # "" /\ u.user_type # requiredUserType
         THEN "dashboard"
    ELSE "children"

\* What is on screen where the guarded route would be
GuardView ==
    IF guardMounted THEN ProtectedRoute(user, authLoading, guardRequired)
    ELSE "unmounted"

\* Record the routes whose children have been rendered
TrackAllowed ==
    allowedBefore' =
        allowedBefore \cup
            (IF guardMounted'
                /\ ProtectedRoute(user', authLoading', guardRequired')
                       = "children"
             THEN {guardRequired'} ELSE {})

\* The router matches a route wrapped in ProtectedRoute
EnterRoute(requiredUserType) ==
    /\ guardMounted' = TRUE
    /\ guardRequired' = requiredUserType
    /\ guardNav' = ""
    /\ UNCHANGED sessionVars
    /\ TrackAllowed
    /\ UNCHANGED otherThanGuard

\* <Navigate to=... replace /> takes effect: the location changes and the
\* guarded route is left
GuardRedirect ==
    /\ guardMounted
    /\ GuardView \in {"login", "dashboard"}
    /\ guardMounted' = FALSE
    /\ guardNav' = (IF GuardView = "login" THEN "/login" ELSE "/dashboard")
    /\ UNCHANGED guardRequired
    /\ UNCHANGED sessionVars
    /\ TrackAllowed
    /\ UNCHANGED otherThanGuard

\* The stored session is restored while the guard shows its spinner
GuardRestore(u) ==
    /\ RestoreSession(u)
    /\ UNCHANGED <<guardMounted, guardRequired, guardNav>>
    /\ TrackAllowed
    /\ UNCHANGED otherThanGuard

\* The login form lives on a public route
GuardLogin(u) ==
    /\ ~guardMounted
    /\ LoginSession(u)
    /\ UNCHANGED <<guardMounted, guardRequired, guardNav>>
    /\ TrackAllowed
    /\ UNCHANGED otherThanGuard

\* Navbar.handleLogout: logout(); navigate('/')
HandleLogout ==
    /\ LogoutSession
    /\ guardMounted' = FALSE
    /\ guardNav' = "/"
    /\ UNCHANGED guardRequired
    /\ TrackAllowed
    /\ UNCHANGED otherThanGuard

GuardInit ==
    /\ guardMounted = FALSE
    /\ guardRequired = ""
    /\ guardNav = ""
    /\ allowedBefore = {}

GuardNext ==
    \/ \E r \in RequiredUserTypes : EnterRoute(r)
    \/ GuardRedirect
    \/ \E u \in Accounts \cup {NoUser} : GuardRestore(u)
    \/ \E u \in Accounts : GuardLogin(u)
    \/ HandleLogout

-----------------------------------------------------------------------------
(* Specifications: one per view.  The views are separate components with  *)
(* state of their own; while one is explored the others stay as            *)
(* constructed.                                                            *)

\* The image pipeline over every batch, with a draft that is empty or valid
ImagesNext ==
    \/ \E name \in FieldNames : \E value \in ValidFieldInputs(name) :
           HandleChange(name, value)
    \/ \E batch \in FileBatches : HandleImageUpload(batch)
    \/ \E rd \in readers : ReaderOnLoad(rd)
    \/ \E index \in 0..(Len(images) - 1) : RemoveImage(index)
    \/ HandleSubmit
    \/ \E p \in posts : \E id \in NewListingIds : PostOk(p, id)
    \/ \E p \in posts : \E detail \in BackendDetails : PostFail(p, detail)

\* CreateService under a session that changes while the view is mounted
GateNext ==
    \/ \E name \in FieldNames : \E value \in ValidFieldInputs(name) :
           HandleChange(name, value)
    \/ \E batch \in SingleFileBatches : HandleImageUpload(batch)
    \/ \E rd \in readers : ReaderOnLoad(rd)
    \/ \E index \in 0..(Len(images) - 1) : RemoveImage(index)
    \/ HandleSubmit
    \/ \E p \in posts : \E id \in NewListingIds : PostOk(p, id)
    \/ \E p \in posts : \E detail \in BackendDetails : PostFail(p, detail)
    \/ \E u \in Accounts \cup {NoUser} : Restore(u)
    \/ \E u \in Accounts : Login(u)
    \/ Logout

Init ==
    /\ CatalogInit
    /\ DraftInit
    /\ SessionInit
    /\ DetailInitFor(1)
    /\ GuardInit

\* The creation view mounted by a creator whose session is already restored
CreatorInit ==
    /\ CatalogInit
    /\ DraftInit
    /\ user = [id |-> 3, user_type |-> "creator"]
    /\ authLoading = FALSE
    /\ DetailInitFor(1)
    /\ GuardInit

\* The detail view is entered on any route id
DetailInit ==
    /\ CatalogInit
    /\ DraftInit
    /\ SessionInit
    /\ \E id \in DetailIds : DetailInitFor(id)
    /\ GuardInit

SpecCatalog == Init /\ [][CatalogNext]_vars

SpecDraft == CreatorInit /\ [][DraftNext]_vars

SpecImages == CreatorInit /\ [][ImagesNext]_vars

SpecGate == Init /\ [][GateNext]_vars

\* A FileReader that has been started delivers its load event
SpecImagesFair ==
    SpecImages /\ WF_vars(\E rd \in readers : ReaderOnLoad(rd))

SpecDetail == DetailInit /\ [][DetailNext]_vars

SpecGuard == Init /\ [][GuardNext]_vars

\* The detail view while the route id changes under it
RouteNext ==
    \/ \E id \in DetailIds : ChangeRoute(id)
    \/ \E id \in detReqs : FetchServiceOk(id)
    \/ \E id \in detReqs : FetchServiceFail(id)

SpecRoute == DetailInit /\ [][RouteNext]_vars

-----------------------------------------------------------------------------
(* Properties of the Marketplace                                           *)

AllSearchesResolved == \A r \in 1..Len(catReqs) : catReqs[r].status # "pending"

LastSearch == Len(catReqs)

\* C1: last request wins.  Once every search issued so far has resolved and
\* the most recently issued one succeeded, the displayed listings are that
\* search's result, whatever order the responses arrived in.
C1_LastRequestWins ==
    (AllSearchesResolved /\ catReqs[LastSearch].status = "ok")
        => services = BackendSearch(catReqs[LastSearch].params)

\* A search fails in transport in this step.
SearchFailsNow ==
    \E r \in 1..Len(catReqs) :
        /\ Len(catReqs') = Len(catReqs)
        /\ catReqs[r].status = "pending"
        /\ catReqs'[r].status = "fail"

\* C3: a search that fails in transport leaves the catalog in an error
\* condition: no listings, loading = false, and a view that is not the one
\* a successful query with zero listings gives ("no services found").
C3_FailureIsErrorState ==
    [][SearchFailsNow =>
          /\ services' = <<>>
          /\ catLoading' = FALSE
          /\ CatalogView' # "no_services_found"]_vars

-----------------------------------------------------------------------------
(* Properties of CreateService                                             *)

\* The transcoded payload of a file
PayloadOf(file) == Base64Of(ReadAsDataURL(file))

\* C2: image order follows selection order.  Two payloads of the image list
\* that come from files of the same batch stand in the order in which the
\* files were selected, whatever order their reads completed in.
C2_SelectionOrderKept ==
    \A i, j \in 1..Len(images) :
        \A u \in 1..Len(uploads) : \A a, b \in 1..Len(uploads[u]) :
            (/\ i < j
             /\ images[i] = PayloadOf(uploads[u][a])
             /\ images[j] = PayloadOf(uploads[u][b])) => a < b

\* handleSubmit runs in this step
SubmitNow == submits' = submits + 1

\* A create-listing request leaves in this step
PostSentNow == \E p \in posts' : p \notin posts

IsBlank(s) == Trim(s) = <<>>

\* s is a decimal integer literal: an optional sign, then digits only
IsIntegerLiteral(s) ==
    LET t    == Trim(s)
        body == IF t # <<>> /\ Head(t) \in {"-", "+"} THEN Tail(t) ELSE t
    IN  body # <<>> /\ \A i \in 1..Len(body) : IsDigit(body[i])

\* The validation contract, field by field
TitleInvalid(fd) == IsBlank(fd.title)

DescriptionInvalid(fd) == IsBlank(fd.description)

PriceInvalid(fd) ==
    LET x == ParseFloat(fd.base_price) IN x.nan \/ x.num <= 0

DeliveryInvalid(fd) ==
    \/ ~IsIntegerLiteral(fd.delivery_time_days)
    \/ ParseInt(fd.delivery_time_days).num < 1

\* The messages of all the fields of fd that break the contract
InvalidFieldMessages(fd) ==
       (IF TitleInvalid(fd) THEN {TitleRequired} ELSE {})
    \cup (IF DescriptionInvalid(fd) THEN {DescriptionRequired} ELSE {})
    \cup (IF PriceInvalid(fd) THEN {InvalidPrice} ELSE {})
    \cup (IF DeliveryInvalid(fd) THEN {InvalidDelivery} ELSE {})

\* What the view reports after a submit: the one error string, if set
ReportedErrors == {draftError} \ {NoError}

C6_SentOnlyWithIntegerDelivery ==
    [][PostSentNow =>
          /\ IsIntegerLiteral(formData.delivery_time_days)
          /\ ParseInt(formData.delivery_time_days).num >= 1]_vars

\* C7: validation errors never reach the network.  A submit whose title or
\* description is blank sends no request, sets a validation error, and ends
\* with loading = false and the fields and images unchanged.
C7_BlankTitleOrDescriptionStaysLocal ==
    [][(SubmitNow /\ (IsBlank(formData.title) \/ IsBlank(formData.description)))
          => /\ posts' = posts
             /\ ~PostSentNow
             /\ draftError' \in {TitleRequired, DescriptionRequired}
             /\ draftLoading' = FALSE
             /\ formData' = formData
             /\ images' = images]_vars

\* A submit with a white-space-only description and an attached image was
\* rejected; nothing is in flight.
C7_Witness ==
    /\ submits > 0
    /\ draftError = DescriptionRequired
    /\ formData.description = <<" ">>
    /\ Len(images) > 0
    /\ posts = {}
    /\ ~draftLoading

-----------------------------------------------------------------------------
(* Properties of ServiceDetail                                             *)

\* What the sidebar shows for the current identity and listing
ShownAffordance == Affordance(user, ServiceOf(service))

IsOwner == user # NoUser /\ user.id = ServiceOf(service).creator_id

CreatorViewing == DetailShown /\ user.user_type = "creator"

BuyerOwnerViewing == DetailShown /\ user.user_type = "buyer" /\ IsOwner

BuyerNotOwnerViewing == DetailShown /\ user.user_type = "buyer" /\ ~IsOwner

\* C8 as stated: for a creator the affordance is "creators cannot order"
\* (the "Only buyers can order services" arm), owner of the listing or not.
C8_CreatorAlwaysToldBuyersOnly ==
    CreatorViewing => ShownAffordance = "buyers_only"

\* C8 as amended: a creator never gets the order form; a creator who does
\* not own the listing is told "Only buyers can order services", and the
\* creator who owns it is shown "This is your service".
C8_CreatorAffordance ==
    CreatorViewing =>
        /\ ShownAffordance = (IF IsOwner THEN "own_service" ELSE "buyers_only")
        /\ ~OrderFormShown
        /\ ~OrderActionAvailable

\* The creator who owns listing 1 views it
C8_Witness ==
    /\ CreatorViewing
    /\ IsOwner
    /\ ShownAffordance = "own_service"

\* C9: a buyer whose id is the listing's owner id is shown "This is your
\* service"; the order form and the order button are not rendered, and no
\* step taken while that buyer views the listing acknowledges an order.
C9_OwnListingNoOrder ==
    /\ [](BuyerOwnerViewing =>
             /\ ShownAffordance = "own_service"
             /\ ~OrderFormShown
             /\ ~OrderActionAvailable)
    /\ [][BuyerOwnerViewing => alerts' = alerts]_vars

\* The buyer with the owner's id views the listing while requirement text
\* typed earlier is still in the view's state.
C9_Witness ==
    /\ BuyerOwnerViewing
    /\ ~IsBlank(orderRequirements)
    /\ ShownAffordance = "own_service"

\* C10: a buyer who is not the owner is shown the order form; the order
\* button is enabled only while the requirement text is non-blank, the
\* handler itself refuses blank text, and every acknowledgment comes from
\* non-blank text.
C10_BuyerOrderForm ==
    /\ [](BuyerNotOwnerViewing =>
             /\ ShownAffordance = "order_form"
             /\ OrderFormShown
             /\ OrderActionAvailable => ~IsBlank(orderRequirements)
             /\ IsBlank(orderRequirements) =>
                    HandleOrderOutcome(user, orderRequirements) # "acknowledge")
    /\ [][alerts' # alerts => ~IsBlank(orderRequirements)]_vars

\* A non-owner buyer has ordered once and then replaced the text by white
\* space: the form is shown and the button is disabled.
C10_Witness ==
    /\ BuyerNotOwnerViewing
    /\ alerts > 0
    /\ orderRequirements = <<" ">>
    /\ OrderFormShown
    /\ ~OrderActionAvailable

SignedOutViewing == DetailShown /\ user = NoUser

\* C11: with no identity the sidebar shows "Sign in to order this service"
\* for every listing; the order form and button are not rendered, handleOrder
\* with no user takes the navigate('/login') return whatever the text is,
\* and no step taken while signed out acknowledges an order.
C11_SignedOutSignIn ==
    /\ [](SignedOutViewing =>
             /\ ShownAffordance = "sign_in"
             /\ ~OrderFormShown
             /\ ~OrderActionAvailable
             /\ \A text \in RequirementInputs :
                    HandleOrderOutcome(user, text) = "login")
    /\ [][user = NoUser => alerts' = alerts]_vars

\* A signed-out visitor views a listing on which an order was acknowledged
\* before the sign-out, with the requirement text still in the view's state.
C11_Witness ==
    /\ SignedOutViewing
    /\ alerts > 0
    /\ ~IsBlank(orderRequirements)
    /\ ShownAffordance = "sign_in"

-----------------------------------------------------------------------------
(* ProtectedRoute properties                                               *)

Identities == Accounts \cup {NoUser}

\* C12: once loading is false, a guarded route entered with no identity
\* renders the redirect to the login entry point and never its children;
\* the navigation that follows goes to /login.
C12_NoIdentityRedirectsToLogin ==
    /\ []((guardMounted /\ ~authLoading /\ user = NoUser)
             => GuardView = "login")
    /\ [][(guardMounted /\ ~authLoading /\ user = NoUser /\ ~guardMounted')
             => guardNav' = "/login"]_vars

C12_Witness ==
    /\ ~guardMounted
    /\ ~authLoading
    /\ user = NoUser
    /\ guardNav = "/login"
    /\ allowedBefore = {}

\* C13: a route that requires a specific role, entered by an identity with
\* another role, renders the redirect to /dashboard: neither its children
\* nor the redirect to login.
RoleMismatch ==
    /\ guardMounted
    /\ ~authLoading
    /\ user # NoUser
    /\ guardRequired # ""
    /\ user.user_type # guardRequired

C13_RoleMismatchRedirectsToDashboard ==
    /\ [](RoleMismatch => GuardView = "dashboard")
    /\ [][(RoleMismatch /\ ~guardMounted' /\ user' = user)
             => guardNav' = "/dashboard"]_vars

C13_Witness ==
    /\ ~guardMounted
    /\ user \in Accounts
    /\ user.user_type = "buyer"
    /\ guardRequired = "creator"
    /\ guardNav = "/dashboard"

\* C14: while the session is loading the guard shows only the pending
\* indicator, whatever the identity and the requirement are, and no
\* navigation away from the route happens.
C14_PendingWhileLoading ==
    /\ []((guardMounted /\ authLoading) => GuardView = "pending")
    /\ [](\A u \in Identities : \A r \in RequiredUserTypes :
              ProtectedRoute(u, TRUE, r) = "pending")
    /\ [][(guardMounted /\ authLoading /\ authLoading')
             => (guardMounted' /\ guardNav' = "")]_vars

C14_Witness ==
    /\ guardMounted
    /\ authLoading
    /\ guardRequired = "creator"
    /\ GuardView = "pending"

\* C15: the decision is taken anew on every route entry from the session as
\* it is then: a creator-only route entered by a signed-in creator shows its
\* children even though the last visit was redirected, and a route entered
\* with no identity redirects to login even though it was allowed before.
EnterNow ==
    /\ guardMounted'
    /\ ~authLoading'
    /\ (~guardMounted \/ guardRequired' # guardRequired)

C15_DecisionRecomputedOnEntry ==
    [][EnterNow =>
          /\ (user' = NoUser => GuardView' = "login")
          /\ (user' # NoUser /\ guardRequired' \in {"", user'.user_type}
                 => GuardView' = "children")
          /\ (user' # NoUser /\ guardRequired' \notin {"", user'.user_type}
                 => GuardView' = "dashboard")]_vars

C15_Witness ==
    /\ guardMounted
    /\ ~authLoading
    /\ user = NoUser
    /\ guardRequired = "creator"
    /\ "creator" \in allowedBefore
    /\ GuardView = "login"

-----------------------------------------------------------------------------
(* Properties of CreateService: how a submission ends                      *)

\* A POST in flight has settled in this step
RequestResolvedNow == posts' # posts /\ posts' \subseteq posts

\* ... by rejection: the view stays
FailNow == RequestResolvedNow /\ draftNav' = draftNav

\* ... by success: the catch clause has not run
SuccessNow == RequestResolvedNow /\ draftError' = draftError

\* C16: a failed submission keeps the draft.  The step in which the POST
\* rejects leaves the fields and the images as they are, ends with loading
\* false on the same view, and shows the backend's message when there is one
\* and the generic message otherwise.
C16_FailedSubmitKeepsDraft ==
    [][FailNow =>
          /\ formData' = formData
          /\ images' = images
          /\ draftLoading' = FALSE
          /\ draftNav' = 0
          /\ draftError' \in (BackendDetails \ {""}) \cup {CreateFailed}]_vars

\* The backend rejected a valid draft with a message of its own; the draft
\* with its image is still there and can be submitted again.
C16_Witness ==
    /\ submits = 1
    /\ posts = {}
    /\ draftError = "Validation failed"
    /\ ~draftLoading
    /\ draftNav = 0
    /\ Len(images) > 0
    /\ ValidationError(formData) = NoError

\* C17: a successful submission navigates to the detail route of the id the
\* backend returned, and from then on the draft is gone: no field changes, no
\* further submit, no further request.
C17_SuccessNavigatesOnce ==
    /\ [](draftNav # 0 =>
             /\ draftNav \in NewListingIds
             /\ posts = {}
             /\ ~draftLoading)
    /\ [][SuccessNow => (draftNav = 0 /\ draftNav' \in NewListingIds)]_vars
    /\ [][draftNav # 0 => UNCHANGED draftVars]_vars

\* The first submit succeeded, with a second one still within the bound
C17_Witness ==
    /\ draftNav \in NewListingIds
    /\ submits = 1
    /\ submits < MaxSubmits
    /\ posts = {}
    /\ draftError = NoError

-----------------------------------------------------------------------------
(* Properties of CreateService: the size limit on attached images          *)

\* handleImageUpload runs in this step
UploadNow == Len(uploads') = Len(uploads) + 1

\* At most 5 MiB
WithinLimit(file) == file.size <= 5 * 1024 * 1024

ImageSet == {images[i] : i \in 1..Len(images)}

\* C18: the size limit at attach time.  Of an attached batch exactly the
\* files of at most 5 MiB are read, wherever an oversized file sits in the
\* batch; a batch with an oversized file sets the size error; every image of
\* the list is the payload of an attached file of at most 5 MiB; a read that
\* completes appends its payload; and a file being read reaches the image
\* list for as long as the view is there.
C18_SizeLimitAtAttach ==
    /\ [][UploadNow =>
             LET batch == uploads'[Len(uploads')]
                 idx == 1..Len(batch)
             IN /\ {rd.file : rd \in readers' \ readers}
                       = {batch[i] : i \in {k \in idx : WithinLimit(batch[k])}}
                /\ readers \subseteq readers'
                /\ (\E i \in idx : ~WithinLimit(batch[i]))
                       => draftError' = ImageTooLarge
                /\ images' = images]_vars
    /\ [](\A i \in 1..Len(images) :
             \E f \in PickedFiles :
                 WithinLimit(f) /\ images[i] = PayloadOf(f))
    /\ [][\A rd \in readers \ readers' :
             images' = Append(images, PayloadOf(rd.file))]_vars
    /\ \A f \in Files :
          (\E rd \in readers : rd.file = f)
              ~> (PayloadOf(f) \in ImageSet \/ draftNav # 0)

\* A batch with the oversized file first and the file of exactly 5 MiB
\* second: the error is set and only the second file is in the list.
C18_Witness ==
    /\ Len(uploads) = 1
    /\ Len(uploads[1]) = 2
    /\ uploads[1][1].size = MaxImageBytes + 1
    /\ uploads[1][2].size = MaxImageBytes
    /\ draftError = ImageTooLarge
    /\ images = <<PayloadOf(uploads[1][2])>>
    /\ readers = {}

-----------------------------------------------------------------------------
(* Properties of CreateService: the request payload                        *)

ValidDraft(fd) ==
    /\ ~TitleInvalid(fd)
    /\ ~DescriptionInvalid(fd)
    /\ ~PriceInvalid(fd)
    /\ ~DeliveryInvalid(fd)

\* x is the number n
IsNumber(x, n) == ~x.nan /\ x.num = n * Pow10(x.scale)

\* x is some integer
IsInteger(x) == ~x.nan /\ x.scale = 0

\* seg is a tag: not empty, no comma, no white space at either end
IsTag(seg) ==
    /\ seg # <<>>
    /\ \A i \in 1..Len(seg) : seg[i] # ","
    /\ ~IsSpace(seg[1])
    /\ ~IsSpace(seg[Len(seg)])

\* C19: the payload of a valid draft.  The request that a submit of a valid
\* draft sends carries the price as a number, delivery time and revisions as
\* integers, the image list as it is, and as tags the comma-separated
\* segments of the raw text, trimmed, without the empty ones: "25.00" goes
\* out as 25, "3" as 3, "a, b," as the tags a and b, and '' as no tags.
C19_PayloadOfValidDraft ==
    [][(SubmitNow /\ ValidDraft(formData)) =>
          \E p \in posts' :
              /\ posts' = posts \cup {p}
              /\ p \notin posts
              /\ ~p.base_price.nan
              /\ (formData.base_price = <<"2", "5", ".", "0", "0">>
                      => IsNumber(p.base_price, 25))
              /\ IsInteger(p.delivery_time_days)
              /\ (formData.delivery_time_days = <<"3">>
                      => IsNumber(p.delivery_time_days, 3))
              /\ IsInteger(p.revisions_included)
              /\ IsNumber(p.revisions_included, 1)
              /\ p.images = images
              /\ \A i \in 1..Len(p.tags) : IsTag(p.tags[i])
              /\ (formData.tags = <<"a", ",", " ", "b", ",">>
                      => p.tags = << <<"a">>, <<"b">> >>)
              /\ (formData.tags = EmptyStr => p.tags = <<>>)
              /\ p.title = formData.title
              /\ p.description = formData.description
              /\ p.category = formData.category]_vars

\* A request with price 25, delivery 3, two tags and one image is in flight
C19_Witness ==
    \E p \in posts :
        /\ IsNumber(p.base_price, 25)
        /\ IsNumber(p.delivery_time_days, 3)
        /\ p.tags = << <<"a">>, <<"b">> >>
        /\ Len(p.images) = 1
        /\ draftLoading

-----------------------------------------------------------------------------
(* Properties of Marketplace: the request of a search                      *)

\* fetchServices sends a request in this step
SearchIssuedNow == Len(catReqs') = Len(catReqs) + 1

\* The query parameter that stands for a filter field
ParamKey(name) ==
    CASE name = "search"   -> "search"
      [] name = "category" -> "category"
      [] name = "minPrice" -> "min_price"
      [] name = "maxPrice" -> "max_price"

\* params carries exactly the fields of f that are not '', as given
CarriesExactly(params, f) ==
    /\ \A name \in FilterNames :
          /\ HasParam(params, ParamKey(name)) <=> f[name] # EmptyStr
          /\ HasParam(params, ParamKey(name))
                 => ParamValue(params, ParamKey(name)) = f[name]
    /\ Len(params) = Cardinality({name \in FilterNames : f[name] # EmptyStr})

\* C20: the request of a search.  Every request carries a parameter for a
\* filter field exactly when the field is not the empty string, with the
\* field's value unchanged; with no field set it carries no parameter; a
\* field of white space only is sent, not dropped.
C20_ParamsExactlyNonEmptyFields ==
    /\ [](catReqs[1].params = <<>>)
    /\ [][SearchIssuedNow =>
             LET params == catReqs'[Len(catReqs')].params
             IN  /\ CarriesExactly(params, filters')
                 /\ (filters' = EmptyFilters => params = <<>>)
                 /\ (filters'.search = <<" ">>
                        => /\ HasParam(params, "search")
                           /\ ParamValue(params, "search") = <<" ">>)]_vars

\* After the first search, which had no parameter, one was issued with a
\* white-space-only search text and a category
C20_Witness ==
    \E r \in 2..Len(catReqs) :
        /\ catReqs[1].params = <<>>
        /\ Len(catReqs[r].params) = 2
        /\ HasParam(catReqs[r].params, "search")
        /\ ParamValue(catReqs[r].params, "search") = <<" ">>
        /\ HasParam(catReqs[r].params, "category")
        /\ filters.search = <<" ">>

\* Both price bounds of f are set, and min exceeds max
Inverted(f) ==
    /\ f.minPrice # EmptyStr
    /\ f.maxPrice # EmptyStr
    /\ NumGreater(ParseFloat(f.minPrice), ParseFloat(f.maxPrice))

\* Request r succeeds in this step
SearchOkNow(r) ==
    /\ Len(catReqs') = Len(catReqs)
    /\ catReqs[r].status = "pending"
    /\ catReqs'[r].status = "ok"

\* C21: inverted price bounds are not rejected by the client.  When a filter
\* change leaves min above max, the request is still sent, with both bounds
\* as typed; and when a request succeeds the listings shown are the
\* backend's answer to it, empty or not.
C21_InvertedBoundsStillSent ==
    /\ [][(filters' # filters /\ Inverted(filters')) =>
             /\ SearchIssuedNow
             /\ LET params == catReqs'[Len(catReqs')].params
                IN  /\ HasParam(params, "min_price")
                    /\ ParamValue(params, "min_price") = filters'.minPrice
                    /\ HasParam(params, "max_price")
                    /\ ParamValue(params, "max_price") = filters'.maxPrice]_vars
    /\ [][\A r \in 1..Len(catReqs) :
             SearchOkNow(r) => services' = BackendSearch(catReqs[r].params)]_vars

\* The search with min 20 and max 10 was answered, with no listing
C21_Witness ==
    /\ Inverted(filters)
    /\ filters.minPrice = <<"2", "0">>
    /\ filters.maxPrice = <<"1", "0">>
    /\ catReqs[Len(catReqs)].status = "ok"
    /\ HasParam(catReqs[Len(catReqs)].params, "min_price")
    /\ HasParam(catReqs[Len(catReqs)].params, "max_price")
    /\ services = <<>>
    /\ CatalogView = "no_services_found"

\* C22: every filter mutation triggers a search built from the new filter.
\* A step that changes the filter sends one new request, pending, whose
\* parameters are those of the filter after the change and nothing of the
\* filter before it; a step that sends a request with all four fields empty
\* (a clear) sends it without parameters.
C22_FilterChangeTriggersSearch ==
    /\ [][filters' # filters =>
             /\ SearchIssuedNow
             /\ SubSeq(catReqs', 1, Len(catReqs)) = catReqs
             /\ catReqs'[Len(catReqs')].status = "pending"
             /\ catLoading'
             /\ CarriesExactly(catReqs'[Len(catReqs')].params, filters')]_vars
    /\ [][(SearchIssuedNow /\ filters' = EmptyFilters) =>
             catReqs'[Len(catReqs')].params = <<>>]_vars

\* A search with a category was followed by one with every field empty
\* again (a clear, or the category set back), sent without parameters
C22_Witness ==
    /\ Len(catReqs) = 3
    /\ HasParam(catReqs[2].params, "category")
    /\ catReqs[3].params = <<>>
    /\ catReqs[3].status = "pending"
    /\ filters = EmptyFilters

-----------------------------------------------------------------------------
(* Properties of ServiceDetail: the order action                           *)

\* handleOrder runs in this step
OrderNow == orders' = orders + 1

\* C23: the order action acknowledges.  When a buyer who is not the owner
\* invokes it with requirement text that is not blank, one alert is shown,
\* no request leaves and no navigation happens, the error is cleared, and
\* orderLoading is false when the handler is done.
C23_OrderIsAcknowledged ==
    /\ [](\A u \in Accounts : \A text \in RequirementInputs :
             (u.user_type = "buyer" /\ ~IsBlank(text))
                 => HandleOrderOutcome(u, text) = "acknowledge")
    /\ [][(OrderNow /\ BuyerNotOwnerViewing /\ ~IsBlank(orderRequirements)) =>
             /\ alerts' = alerts + 1
             /\ orderLoading' = FALSE
             /\ detReqs' = detReqs
             /\ detNav' = detNav
             /\ detError' = ""
             /\ service' = service]_vars

\* The order button was used twice on the same text, each time acknowledged
C23_Witness ==
    /\ BuyerNotOwnerViewing
    /\ orders = 2
    /\ alerts = 2
    /\ ~IsBlank(orderRequirements)
    /\ ~orderLoading
    /\ detError = ""

-----------------------------------------------------------------------------
(* Properties of CreateService: removing an image                          *)

\* s without its element at index (counted from 0): what stands before it,
\* then what stands after it
Spliced(s, index) == SubSeq(s, 1, index) \o SubSeq(s, index + 2, Len(s))

\* The image list changes in this step, and not by a read that completes
RemoveNow == images' # images /\ readers' = readers

\* The attached files that passed the size test
AcceptedFiles == {f \in PickedFiles : WithinLimit(f)}

-----------------------------------------------------------------------------
(* Properties of Marketplace: the loading flag                             *)

SearchInFlight == \E r \in 1..Len(catReqs) : catReqs[r].status = "pending"

\* C25: the loading flag is true in every state where a search request is
\* in flight, so neither the grid nor "no services found" is shown while a
\* newer request is still pending.
C25_LoadingWhileInFlight ==
    SearchInFlight => (catLoading /\ CatalogView = "spinner")

-----------------------------------------------------------------------------
(* Properties of CreateService: submitting while reads are pending         *)

\* C26: a submitted payload contains every image that was accepted at attach
\* time and not removed.  A request that leaves while the read of an
\* accepted file is still pending carries that file's image all the same.
C26_PayloadHasPendingImages ==
    [][\A p \in posts' \ posts :
          \A rd \in readers :
              \E i \in 1..Len(p.images) :
                  p.images[i] = PayloadOf(rd.file)]_vars

-----------------------------------------------------------------------------
(* Properties of CreateService: the role gate                              *)

IsCreator(u) == u \in Accounts /\ u.user_type = "creator"

\* C27: a create-listing request is sent only while the identity is a
\* creator.  For every other identity, and while there is none, the view is
\* the access-denied block, and the steps taken then change no field, attach
\* and remove no image, and neither submit nor send anything: also after a
\* logout while the view is mounted.
C27_OnlyCreatorsPost ==
    /\ [](~IsCreator(user) =>
             /\ CreateServiceView(user) = "access_denied"
             /\ ~FormShown)
    /\ [][PostSentNow => (IsCreator(user) /\ user' = user)]_vars
    /\ [][~IsCreator(user) =>
             /\ submits' = submits
             /\ formData' = formData
             /\ uploads' = uploads
             /\ posts' \subseteq posts]_vars

\* A creator's submit was rejected by the backend; the creator logged out
\* and a buyer logged in: the valid draft is still in the state, a submit is
\* still within the bound, and the form is gone.
C27_Witness ==
    /\ user \in Accounts
    /\ user.user_type = "buyer"
    /\ submits = 1
    /\ submits < MaxSubmits
    /\ posts = {}
    /\ draftNav = 0
    /\ ValidationError(formData) = NoError
    /\ ~FormShown

-----------------------------------------------------------------------------
(* Properties of CreateService: requests in flight                         *)

\* C28: at most one create-listing request is in flight.  loading is true
\* exactly while a request is pending, so it is false again after a
\* validation failure, a success and a failure; handleSubmit runs only
\* while loading is false and nothing is pending; and a submit sends at
\* most one request.
C28_AtMostOnePostInFlight ==
    /\ [](Cardinality(posts) <= 1)
    /\ [](draftLoading <=> posts # {})
    /\ [][SubmitNow =>
             /\ ~draftLoading
             /\ posts = {}
             /\ Cardinality(posts') <= 1]_vars
    /\ [][RequestResolvedNow => (~draftLoading' /\ posts' = {})]_vars

\* After a first submit was rejected by the backend, the second submit's
\* request is the only one in flight
C28_Witness ==
    /\ submits = 2
    /\ Cardinality(posts) = 1
    /\ draftLoading
    /\ draftNav = 0
    /\ draftError = NoError

-----------------------------------------------------------------------------
(* Properties of ServiceDetail: the route id                               *)

\* C29: the detail view shows the listing of the current route id.  Once
\* every fetch has resolved, a listing on screen is the listing of the
\* route id, and a route id the backend does not know gives the not-found
\* view.
C29_ViewFollowsRouteId ==
    detReqs = {} =>
        /\ DetailView = "detail" => service = detId
        /\ detId \notin ListingIds => DetailView = "not_found"

=============================================================================
